---- MODULE Spec2Model ----
(***************************************************************************)
(* Model of src/data.py: the batch acquisition and ingestion pipeline.     *)
(*                                                                         *)
(*   download_all_stock_data      chunked OHLCV download with retries      *)
(*   _fetch_data_with_retry       per symbol/attribute fetch, time budget  *)
(*   fetch_and_store_non_ohlcv_data   schema evolving ingestion            *)
(*   __main__                     batches, progress file                   *)
(*   fetch_and_store_crypto_data  download, replace the table              *)
(*                                                                         *)
(* Each function is a state machine of its own; its program counter is     *)
(* "off" in the behaviours that exercise another function.                 *)
(***************************************************************************)
EXTENDS Integers, Sequences, FiniteSets, TLC

\* ------------------------------------------------------------------ bounds
MaxTickers == 3
MaxRetries == 2
MaxFetchCalls == 2
CallSeconds == 30
MaxBatchSize == 2
MaxRuns == 2
MaxIngest == 2
MaxCryptoCalls == 2

\* ------------------------------------------------------- program constants
delay_seconds == 10
retry_delay_seconds == 600
MAX_RETRY_SECONDS == 300
RETRY_DELAY_SECONDS == 60

Symbols == {"A", "B"}

\* ----------------------------------------------------------- python helpers
Min(a, b) == IF a < b THEN a ELSE b

SeqsUpTo(S, n) == UNION {[1..m -> S] : m \in 0..n}

Range(f) == {f[x] : x \in DOMAIN f}

RECURSIVE Flatten(_)
Flatten(ss) == IF ss = <<>> THEN <<>> ELSE Head(ss) \o Flatten(Tail(ss))

\* range(start, stop, step) for step # 0 (step = 0 raises ValueError)
RECURSIVE PyRange(_, _, _)
PyRange(start, stop, step) ==
    IF step > 0
    THEN IF start >= stop THEN <<>>
         ELSE <<start>> \o PyRange(start + step, stop, step)
    ELSE IF start <= stop THEN <<>>
         ELSE <<start>> \o PyRange(start + step, stop, step)

\* seq[a:b] for 0 <= a, 0 <= b: both ends clamped to len(seq)
SliceShort(s, a, b) == SubSeq(s, a + 1, Min(b, Len(s)) - 1)
Slice(s, a, b) == SubSeq(s, a + 1, Min(b, Len(s)))

\* [seq[i : i + size] for i in range(0, len(seq), size)]
Batches(s, size) ==
    LET starts == PyRange(0, Len(s), size)
    IN [j \in 1..Len(starts) |-> Slice(s, starts[j], starts[j] + size)]

\* ----------------------------------------------------------------- strings
\* A string is a sequence of one-character strings.
LowerChar(c) == CASE c = "R" -> "r" [] c = "L" -> "l" [] c = "E" -> "e" [] OTHER -> c
Lower(s) == [k \in 1..Len(s) |-> LowerChar(s[k])]
Contains(hay, needle) ==
    \E k \in 0..(Len(hay) - Len(needle)) :
        SubSeq(hay, k + 1, k + Len(needle)) = needle

Str429 == <<"4", "2", "9">>
StrRateLimit == <<"r", "a", "t", "e", " ", "l", "i", "m", "i", "t">>

\* the messages of the errors the provider raises in the model
MsgHttp429 == <<"E", "4", "2", "9">>
MsgRateLimit == <<"R", "a", "t", "e", " ", "L", "i", "m", "i", "t">>
MsgNotFound == <<"4", "0", "4">>
ErrorMessages == {MsgHttp429, MsgRateLimit, MsgNotFound}

VARIABLES
    \* download_all_stock_data
    tickers, chunk_size, max_retries, output_dir,
    chunks, dl_pc, i, retries, success, dl_trace, dl_written, dl_failed,
    combined_df,
    \* _fetch_data_with_retry
    now, start_time, attempts, f_pc, f_result, f_trace, f_spent, f_calls,
    f_started,
    \* __main__
    progress_file, all_tickers, batch_size, processed_tickers,
    tickers_to_process, batches, r_pc, batch_no, ticker_no, conn, failed, handed, file0, runs,
    \* fetch_and_store_non_ohlcv_data
    ing_tickers, ing_pc, tk, company_info, attr_tables, info_df,
    new_columns_to_add, col_ix, ds_ix, info_log, attr_last, units, ing_conn,
    \* fetch_and_store_crypto_data
    c_pc, c_conn, crypto_ohlcv, crypto_df, table0, c_at, c_calls

dlVars == <<tickers, chunk_size, max_retries, output_dir, chunks, dl_pc, i,
            retries, success, dl_trace, dl_written, dl_failed, combined_df>>

fVars == <<now, start_time, attempts, f_pc, f_result, f_trace, f_spent, f_calls,
           f_started>>

rVars == <<progress_file, all_tickers, batch_size, processed_tickers,
           tickers_to_process, batches, r_pc, batch_no, ticker_no, conn, failed, handed, file0,
           runs>>

iVars == <<ing_tickers, ing_pc, tk, company_info, attr_tables, info_df,
           new_columns_to_add, col_ix, ds_ix, info_log, attr_last, units, ing_conn>>

cVars == <<c_pc, c_conn, crypto_ohlcv, crypto_df, table0, c_at, c_calls>>

vars == <<dlVars, fVars, rVars, iVars, cVars>>

\* what each function leaves alone
notDl == <<fVars, rVars, iVars, cVars>>
notF == <<dlVars, rVars, iVars, cVars>>
notR == <<dlVars, fVars, iVars, cVars>>
notI == <<dlVars, fVars, rVars, cVars>>
notC == <<dlVars, fVars, rVars, iVars>>

\* =================================================== download_all_stock_data
\* one provider call: what yf.download does for a chunk
CallEv(out, msg) == [ev |-> "call", out |-> out, msg |-> msg, secs |-> 0]
SleepEv(secs) == [ev |-> "sleep", out |-> "", msg |-> <<>>, secs |-> secs]

\* "429" in str(e) or "rate limit" in str(e).lower()
IsRateLimitBatchNever(msg) == FALSE
IsRateLimitBatch(msg) ==
    Contains(msg, Str429) \/ Contains(Lower(msg), StrRateLimit)

\* a chunk file: stock_data_chunk_{n}.parquet holding one column per symbol;
\* a column is <<symbol, "old" | "new">> ("new": downloaded by this call)
ChunkFile(n, chunk) == [name |-> n, data |-> {<<chunk[k], "new">> : k \in 1..Len(chunk)}]
StaleDirs == { {}, {[name |-> 1, data |-> {<<"A", "old">>}]} }

\* to_parquet(chunk_file_path): creates the file or overwrites it
WriteFile(dir, f) == {g \in dir : g.name # f.name} \cup {f}

DlOff ==
    /\ tickers = <<>> /\ chunk_size = 1 /\ max_retries = 1 /\ output_dir = {}
    /\ chunks = <<>> /\ dl_pc = "off" /\ i = 0 /\ retries = 0 /\ success = FALSE
    /\ dl_trace = <<>> /\ dl_written = {} /\ dl_failed = {} /\ combined_df = <<>>

DlInit ==
    /\ tickers \in SeqsUpTo(Symbols, MaxTickers)
    /\ chunk_size \in -1..MaxTickers
    /\ max_retries \in 1..MaxRetries
    /\ output_dir \in StaleDirs
    /\ chunks = <<>> /\ dl_pc = "start" /\ i = 0 /\ retries = 0 /\ success = FALSE
    /\ dl_trace = <<>> /\ dl_written = {} /\ dl_failed = {} /\ combined_df = <<>>

\* lines 443-444: the chunks; range() raises ValueError for a step of 0
DlPartition ==
    /\ UNCHANGED notDl
    /\ dl_pc = "start"
    /\ IF chunk_size = 0
       THEN /\ dl_pc' = "raised"
            /\ UNCHANGED chunks
       ELSE /\ chunks' = Batches(tickers, chunk_size)
            /\ dl_pc' = "for"
    /\ UNCHANGED <<tickers, chunk_size, max_retries, output_dir, i, retries,
                   success, dl_trace, dl_written, dl_failed, combined_df>>

\* line 449: while retries < max_retries and not success
WhileCondOnce(r, m, ok) == r < 1 /\ ~ok
WhileCondOneMore(r, m, ok) == r <= m /\ ~ok
WhileCond(r, m, ok) == r < m /\ ~ok

\* lines 446-448: the next chunk, or the end of the loop
DlNextChunk ==
    /\ UNCHANGED notDl
    /\ dl_pc = "for"
    /\ IF i < Len(chunks)
       THEN /\ retries' = 0 /\ success' = FALSE /\ dl_trace' = <<>>
            /\ dl_pc' = "while"
       ELSE /\ dl_pc' = "combine"
            /\ UNCHANGED <<retries, success, dl_trace>>
    /\ UNCHANGED <<tickers, chunk_size, max_retries, output_dir, chunks, i,
                   dl_written, dl_failed, combined_df>>

\* lines 449-472: one pass of the while loop, the provider answering with data
DlAttemptData ==
    /\ UNCHANGED notDl
    /\ dl_pc = "while" /\ WhileCond(retries, max_retries, success)
    /\ \E out \in {"payload", "empty"} :
        /\ dl_trace' = Append(dl_trace, CallEv(out, <<>>))
        /\ IF out = "payload"
           THEN /\ output_dir' = WriteFile(output_dir, ChunkFile(i + 1, chunks[i + 1]))
                /\ dl_written' = dl_written \cup {i + 1}
           ELSE UNCHANGED <<output_dir, dl_written>>
    /\ success' = TRUE
    /\ UNCHANGED <<tickers, chunk_size, max_retries, chunks, dl_pc, i, retries,
                   dl_failed, combined_df>>

\* lines 466-472: one pass of the while loop, the provider raising
DlAttemptError ==
    /\ UNCHANGED notDl
    /\ dl_pc = "while" /\ WhileCond(retries, max_retries, success)
    /\ \E msg \in ErrorMessages :
        dl_trace' = dl_trace \o
            << CallEv("error", msg),
               SleepEv(IF IsRateLimitBatch(msg) THEN retry_delay_seconds
                                               ELSE delay_seconds) >>
    /\ retries' = retries + 1
    /\ UNCHANGED <<tickers, chunk_size, max_retries, output_dir, chunks, dl_pc, i,
                   success, dl_written, dl_failed, combined_df>>

\* (the delay slept after the last chunk too)
DlChunkEndAlwaysSleeps ==
    /\ UNCHANGED notDl
    /\ dl_pc = "while" /\ ~WhileCond(retries, max_retries, success)
    /\ dl_failed' = IF success THEN dl_failed ELSE dl_failed \cup {i + 1}
    /\ dl_trace' = Append(dl_trace, SleepEv(delay_seconds))
    /\ i' = i + 1
    /\ dl_pc' = "for"
    /\ UNCHANGED <<tickers, chunk_size, max_retries, output_dir, chunks, retries,
                   success, dl_written, combined_df>>

\* lines 474-477: the chunk is over (given up if not success: dl_failed);
\* the delay before the next one
DlChunkEnd ==
    /\ UNCHANGED notDl
    /\ dl_pc = "while" /\ ~WhileCond(retries, max_retries, success)
    /\ dl_failed' = IF success THEN dl_failed ELSE dl_failed \cup {i + 1}
    /\ dl_trace' = IF i < Len(chunks) - 1
                    THEN Append(dl_trace, SleepEv(delay_seconds))
                    ELSE dl_trace
    /\ i' = i + 1
    /\ dl_pc' = "for"
    /\ UNCHANGED <<tickers, chunk_size, max_retries, output_dir, chunks, retries,
                   success, dl_written, combined_df>>

\* df.loc[:, ~df.columns.duplicated()]: the first column of each name
KeepFirst(cols) ==
    LET keep(k) == \A j \in 1..(k - 1) : cols[j][1] # cols[k][1]
        F[k \in 0..Len(cols)] ==
            IF k = 0 THEN <<>>
            ELSE IF keep(k) THEN Append(F[k - 1], cols[k]) ELSE F[k - 1]
    IN F[Len(cols)]

\* the columns of a file, in the file's column order
RECURSIVE SetToSeq(_)
SetToSeq(S) ==
    IF S = {} THEN <<>>
    ELSE LET x == CHOOSE y \in S : TRUE IN <<x>> \o SetToSeq(S \ {x})

\* lines 479-492: every .parquet file of output_dir, in os.listdir order
\* (any order), concatenated column-wise
DlCombine ==
    /\ UNCHANGED notDl
    /\ dl_pc = "combine"
    /\ \E order \in [1..Cardinality(output_dir) -> output_dir] :
        /\ Range(order) = output_dir
        /\ combined_df' =
             KeepFirst(Flatten([k \in 1..Len(order) |-> SetToSeq(order[k].data)]))
    /\ dl_pc' = "done"
    /\ UNCHANGED <<tickers, chunk_size, max_retries, output_dir, chunks, i, retries,
                   success, dl_trace, dl_written, dl_failed>>

DlNext ==
    \/ DlPartition
    \/ DlNextChunk
    \/ DlAttemptData
    \/ DlAttemptError
    \/ DlChunkEnd
    \/ DlCombine

\* ==================================================== _fetch_data_with_retry
\* error_str = str(e).lower(); "429" in error_str or "rate limit" in error_str
IsRateLimitSymbolAlways(msg) == TRUE
IsRateLimitSymbol(msg) ==
    Contains(Lower(msg), Str429) \/ Contains(Lower(msg), StrRateLimit)

\* the time one provider call (getattr(ticker_obj, name)) may take
Latencies == {0, CallSeconds}

GiveUpEv == [ev |-> "giveup", out |-> "", msg |-> <<>>, secs |-> 0]

\* line 221: (time.time() - start_time) < MAX_RETRY_SECONDS
InBudgetLate(clock, start) == (clock - start) <= MAX_RETRY_SECONDS
InBudget(clock, start) == (clock - start) < MAX_RETRY_SECONDS

FOff ==
    /\ now = 0 /\ start_time = 0 /\ attempts = 0 /\ f_pc = "off"
    /\ f_result = "pending" /\ f_trace = <<>> /\ f_spent = 0 /\ f_calls = 0
    /\ f_started = <<>>

FInit ==
    /\ now = 0 /\ start_time = 0 /\ attempts = 0 /\ f_pc = "idle"
    /\ f_result = "pending" /\ f_trace = <<>> /\ f_spent = 0 /\ f_calls = 0
    /\ f_started = <<>>

\* lines 219-220: a call of _fetch_data_with_retry begins; f_started is the
\* clock at the start of each attempt of the call
FetchCall ==
    /\ UNCHANGED notF
    /\ f_pc \in {"idle", "returned"}
    /\ f_calls < MaxFetchCalls
    /\ f_calls' = f_calls + 1
    /\ start_time' = now
    /\ attempts' = 0
    /\ f_trace' = <<>> /\ f_spent' = 0 /\ f_result' = "pending"
    /\ f_started' = <<>>
    /\ f_pc' = "loop"
    /\ UNCHANGED now

\* lines 221-233: an attempt that returns what the provider returned:
\* a payload, an empty table/series/mapping, or None
FetchAttemptData ==
    /\ UNCHANGED notF
    /\ f_pc = "loop" /\ InBudget(now, start_time)
    /\ \E out \in {"payload", "empty", "None"}, d \in Latencies :
        /\ now' = now + d
        /\ f_spent' = f_spent + d
        /\ f_trace' = Append(f_trace, CallEv(out, <<>>))
        /\ f_result' = out
    /\ attempts' = attempts + 1
    /\ f_started' = Append(f_started, now)
    /\ f_pc' = "returned"
    /\ UNCHANGED <<start_time, f_calls>>

\* lines 234-247: an attempt on which the provider raises
FetchAttemptError ==
    /\ UNCHANGED notF
    /\ f_pc = "loop" /\ InBudget(now, start_time)
    /\ \E msg \in ErrorMessages, d \in Latencies :
        /\ f_spent' = f_spent + d
        /\ IF IsRateLimitSymbol(msg)
           THEN /\ now' = now + d + RETRY_DELAY_SECONDS
                /\ f_trace' = f_trace \o
                     <<CallEv("error", msg), SleepEv(RETRY_DELAY_SECONDS)>>
                /\ UNCHANGED <<f_pc, f_result>>
           ELSE /\ now' = now + d
                /\ f_trace' = Append(f_trace, CallEv("error", msg))
                /\ f_result' = "None"
                /\ f_pc' = "returned"
    /\ attempts' = attempts + 1
    /\ f_started' = Append(f_started, now)
    /\ UNCHANGED <<start_time, f_calls>>

\* lines 248-251: the budget is spent
FetchGiveUp ==
    /\ UNCHANGED notF
    /\ f_pc = "loop" /\ ~InBudget(now, start_time)
    /\ f_trace' = Append(f_trace, GiveUpEv)
    /\ f_result' = "None"
    /\ f_pc' = "returned"
    /\ UNCHANGED <<now, start_time, attempts, f_spent, f_calls, f_started>>

FNext ==
    \/ FetchCall
    \/ FetchAttemptData
    \/ FetchAttemptError
    \/ FetchGiveUp

\* ================================================================== __main__
\* the symbols of the listing files, in sorted order
RunSymbols == <<"A", "B", "C", "D">>

\* lines 521-529: the universe, unique and sorted
SortedSeqOf(S) ==
    SelectSeq(RunSymbols, LAMBDA x : x \in S)
Universes == {SortedSeqOf(S) : S \in SUBSET Range(RunSymbols)}

\* lines 648-652: set(f.read().splitlines()), or set() without a file
LoadDropLast(file) == {file[k] : k \in 1..(Len(file) - 1)}
load_processed_tickers(file) == Range(file)

\* lines 654-657: one line per ticker, appended
SaveFront(file, batch) == batch \o file
save_processed_tickers(file, batch) == file \o batch

\* line 661: [x for x in all_tickers if x not in processed_tickers]
ToProcessAll(all, processed) == all
ToProcess(all, processed) == SelectSeq(all, LAMBDA x : x \notin processed)

ROff ==
    /\ progress_file = <<>> /\ all_tickers = <<>> /\ batch_size = 1
    /\ processed_tickers = {} /\ tickers_to_process = <<>> /\ batches = <<>>
    /\ r_pc = "off" /\ batch_no = 0 /\ ticker_no = 0 /\ conn = "none" /\ failed = {}
    /\ handed = {} /\ file0 = <<>> /\ runs = 0

RInit ==
    /\ progress_file \in {<<>>, <<"A", "B">>}
    /\ all_tickers \in Universes
    /\ batch_size \in 1..MaxBatchSize
    /\ processed_tickers = {} /\ tickers_to_process = <<>> /\ batches = <<>>
    /\ r_pc = "init" /\ batch_no = 0 /\ ticker_no = 0 /\ conn = "none" /\ failed = {}
    /\ handed = {} /\ file0 = progress_file /\ runs = 0

\* lines 659-667: a run starts: the universe, the progress set, the batches
RunStart ==
    /\ UNCHANGED notR
    /\ r_pc \in {"init", "done", "interrupted", "crashed"}
    /\ runs < MaxRuns
    /\ runs' = runs + 1
    /\ file0' = progress_file
    /\ processed_tickers' = load_processed_tickers(progress_file)
    /\ tickers_to_process' = ToProcess(all_tickers, processed_tickers')
    /\ batches' = Batches(tickers_to_process', batch_size)
    /\ batch_no' = 0 /\ ticker_no' = 0 /\ failed' = {} /\ handed' = {}
    /\ r_pc' = "for"
    /\ UNCHANGED <<progress_file, all_tickers, batch_size, conn>>

\* (the batch recorded before it is processed)
RunBatchBeginRecordsFirst ==
    /\ UNCHANGED notR
    /\ r_pc = "for" /\ batch_no < Len(batches)
    /\ handed' = handed \cup Range(batches[batch_no + 1])
    /\ failed' = {}
    /\ ticker_no' = 0
    /\ progress_file' = save_processed_tickers(progress_file, batches[batch_no + 1])
    /\ \/ conn' = "open" /\ r_pc' = "tickers"
       \/ conn' = "none" /\ r_pc' = "crashed"
    /\ UNCHANGED <<all_tickers, batch_size, processed_tickers,
                   tickers_to_process, batches, batch_no, file0, runs>>

\* lines 670-672 and 268-275: the next batch goes to
\* fetch_and_store_non_ohlcv_data, which opens the connection
RunBatchBegin ==
    /\ UNCHANGED notR
    /\ r_pc = "for" /\ batch_no < Len(batches)
    /\ handed' = handed \cup Range(batches[batch_no + 1])
    /\ failed' = {}
    /\ ticker_no' = 0
    /\ \/ conn' = "open" /\ r_pc' = "tickers"
       \* os.makedirs or duckdb.connect raises: nothing in the run catches it
       \/ conn' = "none" /\ r_pc' = "crashed"
    /\ UNCHANGED <<progress_file, all_tickers, batch_size, processed_tickers,
                   tickers_to_process, batches, batch_no, file0, runs>>

\* lines 278-426: one ticker of the batch: its fetches and insertions all
\* complete, or one of them raises and line 425 catches it
RunTicker ==
    /\ UNCHANGED notR
    /\ r_pc = "tickers" /\ ticker_no < Len(batches[batch_no + 1])
    /\ \E outcome \in {"ok", "error"} :
        failed' = IF outcome = "error"
                  THEN failed \cup {batches[batch_no + 1][ticker_no + 1]}
                  ELSE failed
    /\ ticker_no' = ticker_no + 1
    /\ UNCHANGED <<progress_file, all_tickers, batch_size, processed_tickers,
                   tickers_to_process, batches, r_pc, batch_no, conn, handed, file0, runs>>

\* lines 427-430: the tickers are done; the connection is closed
RunFetchReturn ==
    /\ UNCHANGED notR
    /\ r_pc = "tickers" /\ ticker_no = Len(batches[batch_no + 1])
    /\ conn' = "closed"
    /\ r_pc' = "save"
    /\ UNCHANGED <<progress_file, all_tickers, batch_size, processed_tickers,
                   tickers_to_process, batches, batch_no, ticker_no, failed, handed, file0, runs>>

\* lines 422-424, 427-430, 675-676: KeyboardInterrupt while the batch is
\* processed: re-raised, the connection closed, the run ended
RunInterrupt ==
    /\ UNCHANGED notR
    /\ r_pc \in {"tickers", "save"}
    /\ conn' = "closed"
    /\ r_pc' = "interrupted"
    /\ UNCHANGED <<progress_file, all_tickers, batch_size, processed_tickers,
                   tickers_to_process, batches, batch_no, ticker_no, failed, handed, file0, runs>>

\* lines 673-674: the batch is recorded in the progress file (the with
\* block of save_processed_tickers, as one step)
RunSave ==
    /\ UNCHANGED notR
    /\ r_pc = "save"
    /\ progress_file' = save_processed_tickers(progress_file, batches[batch_no + 1])
    /\ batch_no' = batch_no + 1
    /\ r_pc' = "for"
    /\ UNCHANGED <<all_tickers, batch_size, processed_tickers, tickers_to_process,
                   batches, ticker_no, conn, failed, handed, file0, runs>>

\* lines 670, 678: no batch is left
RunEnd ==
    /\ UNCHANGED notR
    /\ r_pc = "for" /\ batch_no = Len(batches)
    /\ r_pc' = "done"
    /\ UNCHANGED <<progress_file, all_tickers, batch_size, processed_tickers,
                   tickers_to_process, batches, batch_no, ticker_no, conn, failed, handed, file0,
                   runs>>

RNext ==
    \/ RunStart
    \/ RunBatchBegin
    \/ RunTicker
    \/ RunFetchReturn
    \/ RunInterrupt
    \/ RunSave
    \/ RunEnd

\* ============================================ fetch_and_store_non_ohlcv_data
\* a column of a pandas frame: its label and the dtype of its values
Col(name, dtype) == [name |-> name, dtype |-> dtype]
\* a stored value: the frame column it came from and the ticker of its row
Cell(c, sym) == [src |-> c.name, dtype |-> c.dtype, of |-> sym]

\* what _fetch_data_with_retry(ticker, "info") returns in the model: None,
\* an empty mapping, or a mapping (its keys in order)
InfoPayloads ==
    { << Col("sector", "str") >>,
      << Col("sector", "str"), Col("marketCap", "int") >>,
      << Col("marketCap", "str") >>,
      << Col("ticker", "str"), Col("52WeekChange", "float") >> }
NoData == {[shape |-> "None", cols |-> <<>>], [shape |-> "empty", cols |-> <<>>]}
\* the mapping {}
EmptyMapping == [shape |-> "mapping", cols |-> <<>>]
InfoOutcomes ==
    NoData \cup {EmptyMapping} \cup {[shape |-> "mapping", cols |-> p] : p \in InfoPayloads}

\* line 285: if info (None and {} are false)
Truthy(info) == info.shape = "mapping" /\ info.cols # <<>>

\* lines 364-366: data is not None and not (isinstance(data, (DataFrame,
\* Series)) and data.empty); the shape "empty" is an empty table or series
HasData(data) == data.shape # "None" /\ data.shape # "empty"

\* lines 301-309: the DuckDB type for a pandas dtype
InferType(dtype) ==
    CASE dtype = "int" -> "BIGINT"
      [] dtype = "float" -> "DOUBLE"
      [] dtype = "bool" -> "BOOLEAN"
      [] dtype = "datetime" -> "TIMESTAMP"
      [] OTHER -> "VARCHAR"

\* DuckDB: identifiers are compared without regard to case
NameKey(n) == IF n = "Ticker" THEN "ticker" ELSE n
HasColumn(cols, n) == \E k \in 1..Len(cols) : NameKey(cols[k].name) = NameKey(n)
\* DuckDB: an identifier written without quotes cannot start with a digit
UnquotedOK(n) == n # "52WeekChange"
\* DuckDB: ALTER TABLE ... ADD COLUMN succeeds
AddColumnOK(cols, n, quoted) == ~HasColumn(cols, n) /\ (quoted \/ UnquotedOK(n))
\* DuckDB: a value of this dtype can be stored in a column of this type
CastOK(dtype, type) ==
    CASE type = "VARCHAR" -> TRUE
      [] type = "BIGINT" -> dtype \in {"int", "bool"}
      [] type = "DOUBLE" -> dtype \in {"int", "float"}
      [] type = "BOOLEAN" -> dtype = "bool"
      [] type = "TIMESTAMP" -> dtype \in {"datetime", "date"}
      [] OTHER -> FALSE

TableCol(n, type) == [name |-> n, type |-> type]
Attempt(n, type, quoted, ok) == [col |-> n, type |-> type, quoted |-> quoted, ok |-> ok]
NoTable == [exists |-> FALSE, cols |-> <<>>, rows |-> <<>>]
ColumnNames(tbl) == {tbl.cols[k].name : k \in 1..Len(tbl.cols)}

\* line 290: CREATE TABLE IF NOT EXISTS company_info (Ticker VARCHAR, PRIMARY KEY (Ticker))
CreateCompanyInfo(tbl) ==
    IF tbl.exists THEN tbl
    ELSE [exists |-> TRUE, cols |-> <<TableCol("Ticker", "VARCHAR")>>, rows |-> <<>>]

\* lines 296-310: the frame's columns that are not among the table's names
NewColumns(df, names) ==
    LET new == SelectSeq(df, LAMBDA c : c.name \notin names)
    IN [k \in 1..Len(new) |-> <<new[k].name, InferType(new[k].dtype)>>]

\* lines 313-325: one column: ADD COLUMN with the inferred type; on an error
\* ADD COLUMN "name" VARCHAR; on an error again the column is skipped.
\* (Line 321 as written ends its string literal at the quote before
\* {col_name}; it is modelled as the statement it spells.)
AlterColumnNoFallback(cols, n, type) ==
    IF AddColumnOK(cols, n, FALSE)
    THEN [cols |-> Append(cols, TableCol(n, type)),
          attempts |-> <<Attempt(n, type, FALSE, TRUE)>>]
    ELSE [cols |-> cols, attempts |-> <<Attempt(n, type, FALSE, FALSE)>>]
AlterColumn(cols, n, type) ==
    IF AddColumnOK(cols, n, FALSE)
    THEN [cols |-> Append(cols, TableCol(n, type)),
          attempts |-> <<Attempt(n, type, FALSE, TRUE)>>]
    ELSE IF AddColumnOK(cols, n, TRUE)
    THEN [cols |-> Append(cols, TableCol(n, "VARCHAR")),
          attempts |-> <<Attempt(n, type, FALSE, FALSE),
                         Attempt(n, "VARCHAR", TRUE, TRUE)>>]
    ELSE [cols |-> cols,
          attempts |-> <<Attempt(n, type, FALSE, FALSE),
                         Attempt(n, "VARCHAR", TRUE, FALSE)>>]

\* line 332: the frame's columns that are among the table's names
ColsToInsert(df, names) == SelectSeq(df, LAMBDA c : c.name \in names)

TypeOf(tbl, n) ==
    LET k == CHOOSE j \in 1..Len(tbl.cols) : NameKey(tbl.cols[j].name) = NameKey(n)
    IN tbl.cols[k].type

\* (no primary key: a second row for the ticker is appended)
InsertByNameAppend(tbl, df, sym) ==
    IF \E k \in 1..Len(df) : ~CastOK(df[k].dtype, TypeOf(tbl, df[k].name))
    THEN [ok |-> FALSE, why |-> "conversion", tbl |-> tbl]
    ELSE [ok |-> TRUE, why |-> "",
          tbl |-> [tbl EXCEPT !.rows =
                     Append(@, [n \in {df[k].name : k \in 1..Len(df)} |->
                                  Cell(CHOOSE c \in Range(df) : c.name = n, sym)])]]

\* (the row of a ticker that has one is replaced)
InsertByNameReplace(tbl, df, sym) ==
    IF \E k \in 1..Len(df) : ~CastOK(df[k].dtype, TypeOf(tbl, df[k].name))
    THEN [ok |-> FALSE, why |-> "conversion", tbl |-> tbl]
    ELSE [ok |-> TRUE, why |-> "",
          tbl |-> [tbl EXCEPT !.rows =
                     Append(SelectSeq(@, LAMBDA row : row["Ticker"].of # sym),
                            [n \in {df[k].name : k \in 1..Len(df)} |->
                                  Cell(CHOOSE c \in Range(df) : c.name = n, sym)])]]

\* line 338: INSERT INTO company_info BY NAME: the row, or the reason it is
\* rejected (primary key, conversion)
InsertByName(tbl, df, sym) ==
    IF \E k \in 1..Len(tbl.rows) : tbl.rows[k]["Ticker"].of = sym
    THEN [ok |-> FALSE, why |-> "primary key", tbl |-> tbl]
    ELSE IF \E k \in 1..Len(df) : ~CastOK(df[k].dtype, TypeOf(tbl, df[k].name))
    THEN [ok |-> FALSE, why |-> "conversion", tbl |-> tbl]
    ELSE [ok |-> TRUE, why |-> "",
          tbl |-> [tbl EXCEPT !.rows =
                     Append(@, [n \in {df[k].name : k \in 1..Len(df)} |->
                                  Cell(CHOOSE c \in Range(df) : c.name = n, sym)])]]

\* the datasets of lines 345-357, one of each shape: a financial statement
\* (table), a series, a mapping
datasets_to_fetch == <<"annual_income_statement", "dividends", "earnings_calendar">>

\* a period label of a statement that is a pandas Timestamp, not a str
\* (yfinance labels the period columns of a statement with Timestamps)
TimestampLabel == "Timestamp('2022-12-31')"
IsStr(label) == label # TimestampLabel
\* the period columns of the statements of the model
PeriodColumns ==
    { << Col("2023-12-31", "float") >>,
      << Col("2023-12-31", "float"), Col("TTM", "float") >>,
      << Col(TimestampLabel, "float") >> }
\* the line items (the index) of the statements of the model
MetricIndexes == { <<"Revenue">>, <<"Revenue", "EBIT">> }

\* what _fetch_data_with_retry returns for a dataset in the model
DataOutcomes(name) ==
    NoData \cup
      CASE name = "annual_income_statement" ->
             {[shape |-> "table", cols |-> p, index |-> m] :
                 p \in PeriodColumns, m \in MetricIndexes}
        [] name = "dividends" ->
             {[shape |-> "series", cols |-> <<>>]}
        [] OTHER ->
             {EmptyMapping,
              [shape |-> "mapping",
               cols |-> <<Col("Revenue Average", "int"), Col("Earnings Date", "date")>>],
              [shape |-> "mapping",
               cols |-> <<Col("Earnings Date", "date"), Col("Revenue Average", "int")>>]}

\* line 370: name.split("_")[-1].capitalize()
SeriesName(name) == IF name = "dividends" THEN "Dividends" ELSE name

IsStatement(name) == name = "annual_income_statement"

\* lines 367-410: the columns of final_df
FinalColumns(name, data) ==
    IF data.shape = "series"
    THEN <<Col(SeriesName(name), "float"), Col("Ticker", "str")>>
    ELSE IF IsStatement(name)
    THEN <<Col("Ticker", "str"), Col("Metric", "str"),
           Col("Date", "datetime"), Col("Value", "float")>>
    ELSE data.cols \o <<Col("Ticker", "str")>>

\* line 383: col.lower() for every column label; a label that is not a str
\* has no lower(): AttributeError
LabelLower(label) == IF label = "Ticker" THEN "ticker" ELSE label
LowerRaises(cols) == \E k \in 1..Len(cols) : ~IsStr(cols[k].name)

\* lines 380-385: the columns kept as identifiers
IdNames == {"ticker", "as of date", "period type", "currency code"}
IdVars(cols) == SelectSeq(cols, LAMBDA c : LabelLower(c.name) \in IdNames)

\* lines 404-407: pd.to_datetime(errors="coerce") gives a timestamp, not NaT
ParsesAsDate(label) == label \in {"2023-12-31", TimestampLabel}

\* lines 397-403: melt: for each value column, in order, one row per line
\* item, in index order
Melt(index, value_vars, sym) ==
    Flatten([p \in 1..Len(value_vars) |->
               [m \in 1..Len(index) |->
                  [Ticker |-> sym, Metric |-> index[m],
                   Date |-> value_vars[p].name,
                   Value |-> <<index[m], value_vars[p].name>>]]])

\* lines 372-408: long_df of a statement whose labels are all str (and none
\* of them "as of date" or "period type": the index becomes the Metric
\* column): melted, the dates parsed, the rows without a date dropped
LongDf(data, sym) ==
    LET cols == data.cols \o <<Col("Ticker", "str")>>
        ids == IdVars(cols)
        value_vars == SelectSeq(cols, LAMBDA c : c \notin Range(ids))
    IN SelectSeq(Melt(data.index, value_vars, sym),
                 LAMBDA row : ParsesAsDate(row.Date))

\* line 413: CREATE TABLE IF NOT EXISTS "name" (Ticker VARCHAR, Date TIMESTAMP, Value VARCHAR)
CreateAttrTable(tbl) ==
    IF tbl.exists THEN tbl
    ELSE [exists |-> TRUE,
          cols |-> <<TableCol("Ticker", "VARCHAR"), TableCol("Date", "TIMESTAMP"),
                     TableCol("Value", "VARCHAR")>>,
          rows |-> <<>>]

\* line 415: INSERT INTO "name" SELECT * FROM final_df: the k-th column of the
\* frame goes to the k-th column of the table
InsertByPosition(tbl, df, sym) ==
    IF Len(df) # Len(tbl.cols)
    THEN [ok |-> FALSE, why |-> "column count", tbl |-> tbl]
    ELSE IF \E k \in 1..Len(df) : ~CastOK(df[k].dtype, tbl.cols[k].type)
    THEN [ok |-> FALSE, why |-> "conversion", tbl |-> tbl]
    ELSE [ok |-> TRUE, why |-> "",
          tbl |-> [tbl EXCEPT !.rows =
                     Append(@, [n \in ColumnNames(tbl) |->
                                  Cell(df[CHOOSE k \in 1..Len(df) : tbl.cols[k].name = n], sym)])]]

\* one unit of work: what was fetched for (ticker, name), whether the step
\* changed the store, whether its row was inserted, and for a statement the
\* rows of long_df; units holds the units of the ticker in progress (or of
\* the last one), in order
Unit(sym, name, data, changed, ok, why, long_df) ==
    [ticker |-> sym, name |-> name, data |-> data, changed |-> changed,
     ok |-> ok, why |-> why, long_df |-> long_df]

NoAttr == [table |-> "", df |-> <<>>, before |-> <<>>, attempts |-> <<>>,
           ok |-> FALSE, why |-> ""]

IOff ==
    /\ ing_tickers = <<>> /\ ing_pc = "off" /\ tk = 0
    /\ company_info = NoTable
    /\ attr_tables = [n \in Range(datasets_to_fetch) |-> NoTable]
    /\ info_df = <<>> /\ new_columns_to_add = <<>> /\ col_ix = 0 /\ ds_ix = 0
    /\ info_log = <<>> /\ attr_last = NoAttr /\ units = <<>> /\ ing_conn = "none"

IInit ==
    /\ ing_tickers \in SeqsUpTo(Symbols, MaxIngest) \ {<<>>}
    /\ ing_pc = "start" /\ tk = 0
    /\ company_info = NoTable
    /\ attr_tables = [n \in Range(datasets_to_fetch) |-> NoTable]
    /\ info_df = <<>> /\ new_columns_to_add = <<>> /\ col_ix = 0 /\ ds_ix = 0
    /\ info_log = <<>> /\ attr_last = NoAttr /\ units = <<>> /\ ing_conn = "none"

\* lines 271-275: the output directory, then duckdb.connect, outside the
\* try: the connection is open, or the call raises without one
IngOpen ==
    /\ UNCHANGED notI
    /\ ing_pc = "start"
    /\ \/ ing_conn' = "open" /\ ing_pc' = "ticker"
       \/ ing_conn' = "none" /\ ing_pc' = "raised"
    /\ UNCHANGED <<ing_tickers, tk, company_info, attr_tables, info_df,
                   new_columns_to_add, col_ix, ds_ix, info_log, attr_last, units>>

\* lines 278-310: the next ticker: its info is fetched; with a non-empty
\* mapping the table is created if missing and the new columns are listed
IngTicker ==
    /\ UNCHANGED notI
    /\ ing_pc = "ticker" /\ tk < Len(ing_tickers)
    /\ \E info \in InfoOutcomes :
        IF Truthy(info)
        THEN LET df == info.cols \o <<Col("Ticker", "str")>>
                 tbl == CreateCompanyInfo(company_info)
             IN /\ info_df' = df
                /\ company_info' = tbl
                /\ new_columns_to_add' = NewColumns(df, ColumnNames(tbl))
                /\ info_log' = Append(info_log,
                      [ticker |-> ing_tickers[tk + 1], df |-> df,
                       pre |-> company_info, before |-> tbl, attempts |-> <<>>,
                       insert_cols |-> <<>>, done |-> FALSE, ok |-> FALSE,
                       why |-> ""])
                /\ col_ix' = 0
                /\ ing_pc' = "alter"
                /\ units' = <<>>
                /\ UNCHANGED ds_ix
        ELSE /\ ds_ix' = 0
             /\ ing_pc' = "datasets"
             /\ units' = <<Unit(ing_tickers[tk + 1], "info", info, FALSE, FALSE, "", <<>>)>>
             /\ UNCHANGED <<info_df, company_info, new_columns_to_add, info_log, col_ix>>
    /\ UNCHANGED <<ing_tickers, ing_conn, tk, attr_tables, attr_last>>

\* lines 313-325: one pass of the loop over new_columns_to_add
IngAlter ==
    /\ UNCHANGED notI
    /\ ing_pc = "alter" /\ col_ix < Len(new_columns_to_add)
    /\ LET c == new_columns_to_add[col_ix + 1]
           r == AlterColumn(company_info.cols, c[1], c[2])
       IN /\ company_info' = [company_info EXCEPT !.cols = r.cols]
          /\ info_log' = [info_log EXCEPT ![Len(info_log)].attempts = @ \o r.attempts]
    /\ col_ix' = col_ix + 1
    /\ UNCHANGED <<ing_tickers, ing_conn, ing_pc, tk, attr_tables, info_df, new_columns_to_add,
                   ds_ix, attr_last, units>>

\* lines 327-341: the columns are read again, the row is inserted by name;
\* an error of the insertion ends the ticker (line 425)
IngInsertInfo ==
    /\ UNCHANGED notI
    /\ ing_pc = "alter" /\ col_ix = Len(new_columns_to_add)
    /\ LET cols == ColsToInsert(info_df, ColumnNames(company_info))
           r == InsertByName(company_info, cols, ing_tickers[tk + 1])
       IN /\ company_info' = r.tbl
          /\ info_log' = [info_log EXCEPT ![Len(info_log)] =
                 [@ EXCEPT !.insert_cols = cols, !.done = TRUE, !.ok = r.ok,
                           !.why = r.why]]
          /\ units' = Append(units,
                Unit(ing_tickers[tk + 1], "info",
                     [shape |-> "mapping",
                      cols |-> SubSeq(info_df, 1, Len(info_df) - 1)],
                     r.tbl # info_log[Len(info_log)].pre, r.ok, r.why, <<>>))
          /\ IF r.ok
             THEN /\ ds_ix' = 0 /\ ing_pc' = "datasets" /\ UNCHANGED tk
             ELSE /\ tk' = tk + 1 /\ ing_pc' = "ticker" /\ UNCHANGED ds_ix
    /\ UNCHANGED <<ing_tickers, ing_conn, attr_tables, info_df, new_columns_to_add, col_ix,
                   attr_last>>

\* lines 361-420: one dataset: fetched; with data, reshaped, its table
\* created if missing, its rows inserted; an error ends the ticker (line 425)
IngDataset ==
    /\ UNCHANGED notI
    /\ ing_pc = "datasets" /\ ds_ix < Len(datasets_to_fetch)
    /\ LET name == datasets_to_fetch[ds_ix + 1] IN
       \E data \in DataOutcomes(name) :
        IF ~HasData(data)
        THEN /\ ds_ix' = ds_ix + 1
             /\ units' = Append(units,
                   Unit(ing_tickers[tk + 1], name, data, FALSE, FALSE, "", <<>>))
             /\ UNCHANGED <<ing_pc, tk, attr_tables, attr_last>>
        ELSE IF IsStatement(name) /\ LowerRaises(data.cols)
        \* line 383 raises: nothing is stored, the ticker ends (line 425)
        THEN /\ tk' = tk + 1 /\ ing_pc' = "ticker"
             /\ units' = Append(units,
                   Unit(ing_tickers[tk + 1], name, data, FALSE, FALSE,
                        "attribute error", <<>>))
             /\ UNCHANGED <<ds_ix, attr_tables, attr_last>>
        ELSE LET df == FinalColumns(name, data)
                 tbl == CreateAttrTable(attr_tables[name])
                 r == InsertByPosition(tbl, df, ing_tickers[tk + 1])
             IN /\ attr_tables' = [attr_tables EXCEPT ![name] = r.tbl]
                /\ units' = Append(units,
                      Unit(ing_tickers[tk + 1], name, data,
                           r.tbl # attr_tables[name], r.ok, r.why,
                           IF IsStatement(name)
                           THEN LongDf(data, ing_tickers[tk + 1]) ELSE <<>>))
                /\ attr_last' = [table |-> name, df |-> df, before |-> tbl.cols,
                                 attempts |-> <<>>, ok |-> r.ok, why |-> r.why]
                /\ IF r.ok
                   THEN /\ ds_ix' = ds_ix + 1 /\ UNCHANGED <<ing_pc, tk>>
                   ELSE /\ tk' = tk + 1 /\ ing_pc' = "ticker" /\ UNCHANGED ds_ix
    /\ UNCHANGED <<ing_tickers, ing_conn, company_info, info_df, new_columns_to_add, col_ix,
                   info_log>>

\* line 278: the datasets of the ticker are done
IngTickerEnd ==
    /\ UNCHANGED notI
    /\ ing_pc = "datasets" /\ ds_ix = Len(datasets_to_fetch)
    /\ tk' = tk + 1
    /\ ing_pc' = "ticker"
    /\ UNCHANGED <<ing_tickers, ing_conn, company_info, attr_tables, info_df,
                   new_columns_to_add, col_ix, ds_ix, info_log, attr_last, units>>

\* lines 422-424, 427-430: KeyboardInterrupt while a ticker is processed:
\* raised again, the connection closed on the way out
IngInterrupt ==
    /\ UNCHANGED notI
    /\ \/ ing_pc \in {"alter", "datasets"}
       \/ ing_pc = "ticker" /\ tk < Len(ing_tickers)
    /\ ing_conn' = "closed"
    /\ ing_pc' = "interrupted"
    /\ UNCHANGED <<ing_tickers, tk, company_info, attr_tables, info_df,
                   new_columns_to_add, col_ix, ds_ix, info_log, attr_last, units>>

\* lines 427-430: no ticker is left; the connection is closed
IngFinish ==
    /\ UNCHANGED notI
    /\ ing_pc = "ticker" /\ tk = Len(ing_tickers)
    /\ ing_conn' = "closed"
    /\ ing_pc' = "done"
    /\ UNCHANGED <<ing_tickers, tk, company_info, attr_tables, info_df,
                   new_columns_to_add, col_ix, ds_ix, info_log, attr_last, units>>

INext ==
    \/ IngOpen
    \/ IngTicker
    \/ IngAlter
    \/ IngInsertInfo
    \/ IngDataset
    \/ IngTickerEnd
    \/ IngInterrupt
    \/ IngFinish

\* =============================================== fetch_and_store_crypto_data
\* crypto_ohlcv: the table, absent or with its rows; crypto_df: the rows of
\* long_df in this call; table0: the table when the call began; c_at: where
\* the call ended
CryptoAbsent == [exists |-> FALSE, rows |-> <<>>]
CryptoTable(rows) == [exists |-> TRUE, rows |-> rows]
\* what yf.download returns for the symbols in the model (its rows)
CryptoPayloads == { <<"r1">>, <<"r1", "r2">> }

COff ==
    /\ c_pc = "off" /\ c_conn = "none" /\ crypto_ohlcv = CryptoAbsent
    /\ crypto_df = <<>> /\ table0 = CryptoAbsent /\ c_at = "" /\ c_calls = 0

CInit ==
    /\ c_pc = "start" /\ c_conn = "none"
    /\ crypto_ohlcv \in {CryptoAbsent, CryptoTable(<<"r0">>)}
    /\ crypto_df = <<>> /\ table0 = crypto_ohlcv /\ c_at = "" /\ c_calls = 1

\* line 16: the function is called again
CryptoCall ==
    /\ UNCHANGED notC
    /\ c_pc \in {"done", "interrupted"}
    /\ c_calls < MaxCryptoCalls
    /\ c_calls' = c_calls + 1
    /\ c_pc' = "start" /\ c_conn' = "none" /\ crypto_df' = <<>> /\ c_at' = ""
    /\ table0' = crypto_ohlcv
    /\ UNCHANGED crypto_ohlcv

\* lines 35-39: yf.download: data; nothing (return); an error (line 96)
CryptoDownload ==
    /\ UNCHANGED notC
    /\ c_pc = "start"
    /\ \/ \E rows \in CryptoPayloads :
            crypto_df' = rows /\ c_pc' = "transform" /\ UNCHANGED c_at
       \/ c_pc' = "done" /\ c_at' = c_pc /\ UNCHANGED crypto_df
    /\ UNCHANGED <<c_conn, crypto_ohlcv, table0, c_calls>>

\* lines 43-77: wide to long; an error goes to line 96
CryptoTransform ==
    /\ UNCHANGED notC
    /\ c_pc = "transform"
    /\ \/ c_pc' = "connect" /\ UNCHANGED c_at
       \/ c_pc' = "done" /\ c_at' = c_pc
    /\ UNCHANGED <<c_conn, crypto_ohlcv, crypto_df, table0, c_calls>>

\* line 80: duckdb.connect; an error goes to line 96
CryptoConnect ==
    /\ UNCHANGED notC
    /\ c_pc = "connect"
    /\ \/ c_conn' = "open" /\ c_pc' = "store" /\ UNCHANGED c_at
       \/ c_conn' = "none" /\ c_pc' = "done" /\ c_at' = c_pc
    /\ UNCHANGED <<crypto_ohlcv, crypto_df, table0, c_calls>>

\* (INSERT INTO crypto_ohlcv in place of CREATE OR REPLACE TABLE)
CryptoStoreAppends ==
    /\ UNCHANGED notC
    /\ c_pc = "store"
    /\ \/ /\ crypto_ohlcv' = CryptoTable(crypto_ohlcv.rows \o crypto_df)
          /\ c_pc' = "verify" /\ UNCHANGED c_at
       \/ crypto_ohlcv' = crypto_ohlcv /\ c_pc' = "done" /\ c_at' = c_pc
    /\ UNCHANGED <<c_conn, crypto_df, table0, c_calls>>

\* line 84: CREATE OR REPLACE TABLE crypto_ohlcv AS SELECT * FROM long_df;
\* an error goes to line 96, which prints and returns
CryptoStore ==
    /\ UNCHANGED notC
    /\ c_pc = "store"
    /\ \/ crypto_ohlcv' = CryptoTable(crypto_df) /\ c_pc' = "verify" /\ UNCHANGED c_at
       \/ crypto_ohlcv' = crypto_ohlcv /\ c_pc' = "done" /\ c_at' = c_pc
    /\ UNCHANGED <<c_conn, crypto_df, table0, c_calls>>

\* lines 88-92: the sample and the schema are read back and printed; an
\* error goes to line 96
CryptoVerify ==
    /\ UNCHANGED notC
    /\ c_pc = "verify"
    /\ \/ c_pc' = "close" /\ UNCHANGED c_at
       \/ c_pc' = "done" /\ c_at' = c_pc
    /\ UNCHANGED <<c_conn, crypto_ohlcv, crypto_df, table0, c_calls>>

\* line 94: conn.close()
CryptoClose ==
    /\ UNCHANGED notC
    /\ c_pc = "close"
    /\ c_conn' = "closed"
    /\ c_pc' = "done" /\ c_at' = c_pc
    /\ UNCHANGED <<crypto_ohlcv, crypto_df, table0, c_calls>>

\* KeyboardInterrupt is not an Exception: line 96 does not catch it, and
\* the function has no finally
CryptoInterrupt ==
    /\ UNCHANGED notC
    /\ c_pc \in {"start", "transform", "connect", "store", "verify", "close"}
    /\ c_pc' = "interrupted" /\ c_at' = c_pc
    /\ UNCHANGED <<c_conn, crypto_ohlcv, crypto_df, table0, c_calls>>

CNext ==
    \/ CryptoCall
    \/ CryptoDownload
    \/ CryptoTransform
    \/ CryptoConnect
    \/ CryptoStore
    \/ CryptoVerify
    \/ CryptoClose
    \/ CryptoInterrupt

\* ============================================================ specifications
InitDownload == DlInit /\ FOff /\ ROff /\ IOff /\ COff
SpecDownload == InitDownload /\ [][DlNext]_vars

InitFetch == DlOff /\ FInit /\ ROff /\ IOff /\ COff
SpecFetch == InitFetch /\ [][FNext]_vars

InitRun == DlOff /\ FOff /\ RInit /\ IOff /\ COff
SpecRun == InitRun /\ [][RNext]_vars

InitIngest == DlOff /\ FOff /\ ROff /\ IInit /\ COff
SpecIngest == InitIngest /\ [][INext]_vars

\* either fetcher: the batch path or the symbol path
InitFetchers == InitDownload \/ InitFetch
NextFetchers == DlNext \/ FNext
SpecFetchers == InitFetchers /\ [][NextFetchers]_vars

InitCrypto == DlOff /\ FOff /\ ROff /\ IOff /\ CInit
SpecCrypto == InitCrypto /\ [][CNext]_vars

\* either function that opens a store connection
InitStores == InitIngest \/ InitCrypto
NextStores == INext \/ CNext
SpecStores == InitStores /\ [][NextStores]_vars

\* the units of work: the chunks of a download, the tickers and datasets
\* of an ingestion
InitUnits == InitDownload \/ InitIngest
NextUnits == DlNext \/ INext
SpecUnits == InitUnits /\ [][NextUnits]_vars

\* either batcher: the chunks of a download or the batches of a run
InitBatchers == InitDownload \/ InitRun
NextBatchers == DlNext \/ RNext
SpecBatchers == InitBatchers /\ [][NextBatchers]_vars

\* ==================================================================== claims
\* the batches bs partition the sequence S into slices of k
PartitionOK(S, k, bs) ==
    /\ Flatten(bs) = S
    /\ \A j \in 1..Len(bs) :
          /\ Len(bs[j]) >= 1 /\ Len(bs[j]) <= k
          /\ j < Len(bs) => Len(bs[j]) = k
    /\ Len(bs) = (Len(S) + k - 1) \div k

\* C1: for a positive size k the slicing batcher, in download_all_stock_data
\* and in the main run, returns batches that concatenate to the input in
\* order, each of 1..k symbols, only the last shorter than k, ceil(|S|/k) of
\* them.
C1_BatchesPartition ==
    /\ (dl_pc \in {"for", "while", "combine", "done"} /\ chunk_size > 0) =>
          PartitionOK(tickers, chunk_size, chunks)
    /\ r_pc \notin {"off", "init"} =>
          PartitionOK(tickers_to_process, batch_size, batches)

\* three symbols in chunks of two: a full chunk and a shorter last one
C1_Witness ==
    /\ dl_pc = "for" /\ tickers = <<"A", "B", "A">> /\ chunk_size = 2
    /\ chunks = << <<"A", "B">>, <<"A">> >>

\* C2 as stated: no symbol whose processing raised an ingestion error is in
\* the progress file (save_processed_tickers runs only for batches whose
\* symbols were all ingested without error).
C2_AsStated == failed \cap Range(progress_file) = {}

\* the batches before the one in flight
DoneBatches == Flatten(SubSeq(batches, 1, batch_no))

C4_ProcessesUniverseMinusProgress ==
    r_pc \notin {"off", "init"} =>
      LET todo == Range(all_tickers) \ Range(file0) IN
      /\ Range(Flatten(batches)) = todo
      /\ Len(Flatten(batches)) = Cardinality(todo)
      /\ handed \subseteq todo
      /\ r_pc = "done" => handed = todo

\* progress {A, B}, universe {A, B, C, D}: the run processed {C, D}
C4_Witness ==
    /\ r_pc = "done" /\ file0 = <<"A", "B">>
    /\ all_tickers = <<"A", "B", "C", "D">>
    /\ handed = {"C", "D"}

\* what the claims call a rate-limit error, among the model's messages
ClaimRateLimit(msg) == msg \in {MsgHttp429, MsgRateLimit}

IsCall(e) == e.ev = "call"
IsRLError(e) == e.ev = "call" /\ e.out = "error" /\ ClaimRateLimit(e.msg)
IsOtherError(e) == e.ev = "call" /\ e.out = "error" /\ ~ClaimRateLimit(e.msg)
NumCalls(tr) == Len(SelectSeq(tr, IsCall))
NumRLErrors(tr) == Len(SelectSeq(tr, IsRLError))
\* every provider call of the trace raised a rate-limit error
OnlyRLErrors(tr) == NumCalls(tr) = NumRLErrors(tr)
\* each rate-limit error is followed at once by one sleep of d seconds, and
\* a sleep of d seconds happens nowhere else
SleepsAfterRL(tr, d) ==
    /\ \A k \in 1..Len(tr) :
          IsRLError(tr[k]) => k < Len(tr) /\ tr[k + 1] = SleepEv(d)
    /\ \A k \in 1..Len(tr) :
          (tr[k].ev = "sleep" /\ tr[k].secs = d) => k > 1 /\ IsRLError(tr[k - 1])
\* the trace is k rate-limit errors, each with its sleep, then a payload
RLThenPayload(tr) ==
    /\ tr # <<>>
    /\ tr[Len(tr)] = CallEv("payload", <<>>)
    /\ OnlyRLErrors(SubSeq(tr, 1, Len(tr) - 1))

ChunkOver == dl_pc \in {"for", "combine", "done"} /\ i >= 1
\* the trace of the chunk without the delay that follows the chunk
ChunkTrace ==
    IF ChunkOver /\ dl_trace # <<>> /\ dl_trace[Len(dl_trace)].ev = "sleep"
       /\ i < Len(chunks)
    THEN SubSeq(dl_trace, 1, Len(dl_trace) - 1)
    ELSE dl_trace

C5_SymbolPath(spent) ==
    f_pc \in {"loop", "returned"} =>
      /\ SleepsAfterRL(f_trace, RETRY_DELAY_SECONDS)
      /\ \A k \in 1..Len(f_trace) : f_trace[k].ev = "sleep" =>
             f_trace[k].secs = RETRY_DELAY_SECONDS
      /\ (f_pc = "returned" /\ RLThenPayload(f_trace)) =>
             /\ f_result = "payload"
             /\ attempts = NumRLErrors(f_trace) + 1
             /\ NumCalls(f_trace) = NumRLErrors(f_trace) + 1
             /\ Len(f_trace) = 2 * NumRLErrors(f_trace) + 1
      \* the fetcher gives up after k rate-limit errors only outside the bound
      /\ (f_pc = "returned" /\ f_trace[Len(f_trace)] = GiveUpEv) =>
             /\ OnlyRLErrors(f_trace)
             /\ ~(NumRLErrors(f_trace) * RETRY_DELAY_SECONDS + spent
                     < MAX_RETRY_SECONDS)

C5_BatchPath ==
    dl_pc \in {"while", "for", "combine", "done"} =>
      /\ SleepsAfterRL(dl_trace, retry_delay_seconds)
      /\ (success /\ RLThenPayload(ChunkTrace)) =>
             /\ (i + (IF ChunkOver THEN 0 ELSE 1)) \in dl_written
             /\ NumCalls(dl_trace) = NumRLErrors(dl_trace) + 1
             /\ retries = NumRLErrors(dl_trace)
             /\ Len(ChunkTrace) = 2 * NumRLErrors(dl_trace) + 1
      \* the chunk is given up after k rate-limit errors only outside the bound
      /\ (ChunkOver /\ ~success /\ OnlyRLErrors(dl_trace)) =>
             ~(NumRLErrors(dl_trace) < max_retries)

\* C5 (as amended): in both fetchers, k rate-limit errors followed by a
\* non-empty payload make exactly k+1 provider calls, one rate-limit sleep
\* right after each error and none elsewhere, and end in success on the
\* attempt after the last sleep, provided k is inside the bound; for the
\* symbol path the bound is on the elapsed time, the k sleeps plus the time
\* spent in the k provider calls: k * RETRY_DELAY_SECONDS + spent <
\* MAX_RETRY_SECONDS; for the batch path it is k < max_retries.
C5_RetryThenSuccess == C5_SymbolPath(f_spent) /\ C5_BatchPath

\* C5 as stated: the bound of the symbol path is k * RETRY_DELAY_SECONDS <
\* MAX_RETRY_SECONDS, whatever time the provider calls took.
C5_AsStated == C5_SymbolPath(0) /\ C5_BatchPath

\* four rate-limit errors, then the payload on the fifth call, the calls
\* having taken time
C5_Witness ==
    /\ f_pc = "returned" /\ f_result = "payload"
    /\ NumRLErrors(f_trace) = 4 /\ Len(f_trace) = 9 /\ f_spent > 0

\* C6: in _fetch_data_with_retry an attempt that yields a payload, an empty
\* or None response, or an error that is not a rate-limit error is the last
\* event of the call: no sleep and no provider call follows; the result is
\* the response as is, or None for the error.
C6_RetryOnlyOnRateLimit ==
    f_pc \in {"loop", "returned"} =>
      \A k \in 1..Len(f_trace) :
        (IsCall(f_trace[k]) /\ ~IsRLError(f_trace[k])) =>
          /\ k = Len(f_trace)
          /\ f_pc = "returned"
          /\ attempts = NumCalls(f_trace)
          /\ f_result = IF f_trace[k].out = "error" THEN "None" ELSE f_trace[k].out

\* a rate-limit error, then an error that is not one: the call has returned
C6_Witness ==
    /\ f_pc = "returned" /\ Len(f_trace) = 3
    /\ IsRLError(f_trace[1]) /\ IsOtherError(f_trace[3])
    /\ f_result = "None"

\* C7 as stated: in download_all_stock_data an error that is not a
\* rate-limit error is the last provider call of its chunk.
C7_AsStated ==
    dl_pc \in {"while", "for", "combine", "done"} =>
      \A k \in 1..Len(dl_trace) : IsOtherError(dl_trace[k]) =>
          \A j \in (k + 1)..Len(dl_trace) : ~IsCall(dl_trace[j])

\* C7 (as amended): in download_all_stock_data an error that is not a
\* rate-limit error counts as one failed attempt: delay_seconds is slept and
\* the provider is called again while fewer than max_retries attempts have
\* failed; a chunk is given up only after max_retries failed attempts.
C7_OtherErrorRetried ==
    dl_pc \in {"while", "for", "combine", "done"} =>
      /\ \A k \in 1..Len(dl_trace) : IsOtherError(dl_trace[k]) =>
            k < Len(dl_trace) /\ dl_trace[k + 1] = SleepEv(delay_seconds)
      /\ (ChunkOver /\ ~success) =>
            /\ NumCalls(dl_trace) = max_retries
            /\ retries = max_retries
      /\ NumCalls(dl_trace) <= max_retries

\* an error that is not a rate-limit error, and the provider called again
C7_Witness ==
    /\ dl_pc = "while" /\ Len(dl_trace) >= 3
    /\ IsOtherError(dl_trace[1]) /\ IsCall(dl_trace[3])

\* ------------------------------------------------------ claims on ingestion
Names(df) == {df[k].name : k \in 1..Len(df)}
AttemptsFor(e, n) == SelectSeq(e.attempts, LAMBDA a : a.col = n)
Added(e, n) == \E k \in 1..Len(e.attempts) : e.attempts[k].col = n /\ e.attempts[k].ok
NumAdded(e, n) == Len(SelectSeq(e.attempts, LAMBDA a : a.col = n /\ a.ok))
\* the store rejected the column with the inferred type and as text
Rejected(e, n) ==
    /\ Len(AttemptsFor(e, n)) = 2
    /\ \A k \in 1..2 : ~AttemptsFor(e, n)[k].ok
\* the columns of the dataset that the table lacked when it was read
Missing(e) == SelectSeq(e.df, LAMBDA c : c.name \notin ColumnNames(e.before))

\* the same dataset was ingested twice, the table being empty at first
SameTwice ==
    /\ Len(info_log) = 2 /\ info_log[2].done
    /\ info_log[1].ticker = info_log[2].ticker
    /\ info_log[1].df = info_log[2].df

Aligned(tbl) ==
    \A r \in 1..Len(tbl.rows) : \A n \in DOMAIN tbl.rows[r] : tbl.rows[r][n].src = n

\* C10 as stated: for company_info and for every per-attribute table, each
\* incoming column that the table lacks gets an add-column attempt before
\* the insertion, the insertion does not fail on the number or order of the
\* columns, and every value is stored under its own column name.
C10_AsStated ==
    /\ \A x \in 1..Len(info_log) : info_log[x].done =>
          \A n \in Names(Missing(info_log[x])) : AttemptsFor(info_log[x], n) # <<>>
    /\ Aligned(company_info)
    /\ attr_last.table # "" =>
          /\ \A n \in Names(attr_last.df) \ {attr_last.before[k].name :
                                                 k \in 1..Len(attr_last.before)} :
                \E k \in 1..Len(attr_last.attempts) : attr_last.attempts[k].col = n
          /\ attr_last.why # "column count"
    /\ \A name \in Range(datasets_to_fetch) : Aligned(attr_tables[name])

\* ------------------------------------------------- claims on units of work
\* the response is empty: None, an empty table or series, the mapping {}
IsEmptyResponse(data) == ~HasData(data) \/ data = EmptyMapping
\* the unit fetched a row set
Fetched(u) == ~IsEmptyResponse(u.data)

\* C11 as stated: when fetch_and_store_non_ohlcv_data has returned normally,
\* the rows of every unit that fetched data have been inserted (an insertion
\* that fails is raised to the caller, so the function does not return
\* normally with a fetched row left out).
C11_AsStated ==
    ing_pc = "done" => \A k \in 1..Len(units) : Fetched(units[k]) => units[k].ok

\* ------------------------------------------------ claims on the time budget
\* the seconds since the call of _fetch_data_with_retry began
Elapsed == now - start_time
GaveUp == f_trace # <<>> /\ f_trace[Len(f_trace)] = GiveUpEv
\* the attempts that fit in the budget when each one costs a sleep
MostAttempts == (MAX_RETRY_SECONDS + RETRY_DELAY_SECONDS - 1) \div RETRY_DELAY_SECONDS

\* C12: in _fetch_data_with_retry every attempt of a call starts less than
\* MAX_RETRY_SECONDS after that call began (the first one when it began,
\* whatever time earlier calls took); each rate-limit error is followed by
\* one sleep of RETRY_DELAY_SECONDS; while every attempt is rate limited the
\* call goes on, bounded by the time only, and it ends once the elapsed
\* time has reached the budget, with None; the attempts of a call are
\* finitely many.
C12_BudgetPerCall ==
    f_pc \in {"loop", "returned"} =>
      /\ attempts = Len(f_started) /\ attempts = NumCalls(f_trace)
      /\ \A k \in 1..Len(f_started) :
            /\ f_started[k] - start_time < MAX_RETRY_SECONDS
            /\ k = 1 => f_started[k] = start_time
      /\ SleepsAfterRL(f_trace, RETRY_DELAY_SECONDS)
      /\ NumRLErrors(f_trace) * RETRY_DELAY_SECONDS + f_spent = Elapsed
      /\ NumRLErrors(f_trace) <= MostAttempts
      \* persistent rate limiting: the call goes on until it gives up
      /\ (OnlyRLErrors(f_trace) /\ ~GaveUp) => f_pc = "loop"
      /\ (OnlyRLErrors(f_trace) /\ f_pc = "returned") => GaveUp
      /\ GaveUp =>
            /\ f_pc = "returned" /\ f_result = "None"
            /\ Elapsed >= MAX_RETRY_SECONDS
            /\ OnlyRLErrors(f_trace)
            /\ NumRLErrors(f_trace) >= 1

\* a second call that began after the first one had used up its budget,
\* and that made its own five attempts before it gave up
C12_Witness ==
    /\ f_calls = 2 /\ start_time >= MAX_RETRY_SECONDS
    /\ GaveUp /\ attempts = MostAttempts /\ f_result = "None"

\* ---------------------------------------------- claims on the chunk files
\* the file holds data downloaded by this call
IsNewFile(f) == \E c \in f.data : c[2] = "new"
LastCall(tr) == LET calls == SelectSeq(tr, IsCall) IN calls[Len(calls)]

\* C13: in download_all_stock_data a chunk gets at most max_retries provider
\* calls; a chunk whose calls all failed is given up after max_retries of
\* them, no file is written for it by this call, and the loop goes on to
\* the chunks after it; a chunk file is written only by a call that
\* returned data that is not empty.
C13_BoundedAttempts ==
    dl_pc \in {"while", "for", "combine", "done"} =>
      /\ NumCalls(dl_trace) <= max_retries
      /\ (ChunkOver /\ ~success) =>
            i \in dl_failed /\ NumCalls(dl_trace) = max_retries
      /\ dl_failed \cap dl_written = {}
      /\ \A f \in output_dir :
            /\ f.name \in dl_failed => ~IsNewFile(f)
            /\ IsNewFile(f) => f.name \in dl_written
      /\ dl_written \subseteq {f.name : f \in output_dir}
      /\ dl_pc = "while" =>
            ((i + 1) \in dl_written <=>
                (success /\ LastCall(dl_trace) = CallEv("payload", <<>>)))
      \* the chunks before the current one were all attempted
      /\ dl_failed \cup dl_written \subseteq 1..(i + 1)
      /\ dl_pc \in {"combine", "done"} => i = Len(chunks)

\* the first chunk given up after max_retries calls, the second written
C13_Witness ==
    /\ dl_pc = "done" /\ max_retries = 2 /\ Len(chunks) = 2
    /\ dl_failed = {1} /\ dl_written = {2}

\* C14 as stated: a unit whose fetch ended with None or with an empty
\* response (an empty table or series, the mapping {}) creates no table,
\* changes no schema and inserts no row: the store is as it was before.
C14_AsStated ==
    \A k \in 1..Len(units) :
        IsEmptyResponse(units[k].data) => ~units[k].changed /\ ~units[k].ok

\* --------------------------------------------- claims on the connections
\* C15 as stated: when fetch_and_store_non_ohlcv_data or
\* fetch_and_store_crypto_data has ended, by a normal return, by an error
\* after the connection was opened, or by an operator interrupt, the
\* connection it opened is closed.
C15_AsStated ==
    /\ ing_pc \in {"done", "interrupted", "raised"} => ing_conn # "open"
    /\ c_pc \in {"done", "interrupted"} => c_conn # "open"

\* the names of the units attempted for the ticker
UnitNames == {units[k].name : k \in 1..Len(units)}

\* C16 as stated: without an operator interrupt every unit is attempted,
\* whatever failed before it: when a ticker is over, its info and each of
\* its datasets were attempted; when the ingestion is over, each ticker was;
\* when the download loop is over, each chunk was.
C16_AsStated ==
    /\ (ing_pc \in {"ticker", "done"} /\ tk >= 1) =>
          UnitNames = {"info"} \cup Range(datasets_to_fetch)
    /\ ing_pc = "done" => tk = Len(ing_tickers)
    /\ dl_pc \in {"combine", "done"} => i = Len(chunks)

\* ------------------------------------------------ claims on the combined table
\* the symbols of the chunks whose file this call wrote
WrittenSymbols == UNION {Range(chunks[n]) : n \in dl_written}

\* C17 as stated: when a chunk was given up, the table that the call of
\* download_all_stock_data returns has no data for the symbols of that
\* chunk, whatever files output_dir held before the call: a column for such
\* a symbol can only come from another chunk, downloaded by this call.
C17_AsStated ==
    dl_pc = "done" =>
      \A n \in dl_failed : \A k \in 1..Len(combined_df) :
          combined_df[k][1] \in Range(chunks[n]) =>
              /\ combined_df[k][2] = "new"
              /\ combined_df[k][1] \in WrittenSymbols

\* ------------------------------------------------------ claims on the sizes
\* C18 as stated: with a chunk size of zero or less the batcher of
\* download_all_stock_data raises: no list of chunks, empty or not, is
\* returned and the call goes no further.
C18_AsStated ==
    (dl_pc \notin {"off", "start"} /\ chunk_size <= 0) => dl_pc = "raised"

\* ------------------------------------------------ claims on type conflicts
\* a value of the row has a dtype that the type of its column does not take
TypeConflict(e) ==
    \E k \in 1..Len(e.insert_cols) :
        ~CastOK(e.insert_cols[k].dtype, TypeOf(company_info, e.insert_cols[k].name))
HasRow(tbl, sym) == \E r \in 1..Len(tbl.rows) : tbl.rows[r]["Ticker"].of = sym

\* C19 as stated: a company_info ingestion whose value for an existing
\* column conflicts with the type of that column still stores its row: the
\* row of a ticker that had none is in the table after the ingestion.
C19_AsStated ==
    \A x \in 1..Len(info_log) :
      LET e == info_log[x] IN
      (e.done /\ TypeConflict(e) /\ ~HasRow(e.before, e.ticker)) =>
          e.ok /\ HasRow(company_info, e.ticker)

\* -------------------------------------------------- claims on the statements
\* the rows of long_df for the line item m and the period label p
RowsFor(u, m, p) ==
    {k \in 1..Len(u.long_df) : u.long_df[k].Metric = m /\ u.long_df[k].Date = p}
PeriodLabels(u) == {u.data.cols[k].name : k \in 1..Len(u.data.cols)}

\* the rows are one per line item and period label that parses as a
\* timestamp, and no other
OneRowPerPair(u) ==
    /\ \A m \in Range(u.data.index) : \A p \in PeriodLabels(u) :
          ParsesAsDate(p) => Cardinality(RowsFor(u, m, p)) = 1
    /\ \A k \in 1..Len(u.long_df) :
          /\ u.long_df[k].Ticker = u.ticker
          /\ u.long_df[k].Metric \in Range(u.data.index)
          /\ u.long_df[k].Date \in PeriodLabels(u)
          /\ ParsesAsDate(u.long_df[k].Date)

\* C20 as stated: for a statement with line items M and period labels P the
\* reshaping yields one row (Ticker, Metric, Date, Value) for each m in M
\* and each p in P that parses as a timestamp, no row for a label that does
\* not parse, and no row without a date.
C20_AsStated ==
    \A x \in 1..Len(units) :
        (IsStatement(units[x].name) /\ HasData(units[x].data)) =>
            OneRowPerPair(units[x])

\* ------------------------------------------------ claims on the batch delay
IsErrorCall(e) == e.ev = "call" /\ e.out = "error"
\* the sleeps of delay_seconds that are not the sleep of a failed attempt
\* (line 472, right after the error): those of line 477
InterBatchSleeps(tr) ==
    {k \in 1..Len(tr) :
        /\ tr[k] = SleepEv(delay_seconds)
        /\ k > 1 => ~IsErrorCall(tr[k - 1])}
\* the last provider call of the trace
LastCallAt(tr) == CHOOSE k \in 1..Len(tr) :
                     IsCall(tr[k]) /\ \A j \in (k + 1)..Len(tr) : ~IsCall(tr[j])

\* C21: in download_all_stock_data the delay of line 477 is slept once after
\* each chunk but the last, as the last event of the chunk, after its last
\* provider call, whether the chunk ended with data, with an empty result or
\* given up; it is not slept while the chunk is attempted, and not after
\* the last chunk.
C21_InterBatchDelay ==
    /\ dl_pc = "while" => InterBatchSleeps(dl_trace) = {}
    /\ ChunkOver =>
          /\ NumCalls(dl_trace) >= 1
          /\ IF i < Len(chunks)
             THEN /\ InterBatchSleeps(dl_trace) = {Len(dl_trace)}
                  /\ LastCallAt(dl_trace) < Len(dl_trace)
             ELSE InterBatchSleeps(dl_trace) = {}

\* the first of two chunks given up after two failed calls, and the delay
\* slept before the second
C21_Witness ==
    /\ dl_pc = "for" /\ i = 1 /\ Len(chunks) = 2 /\ ~success
    /\ NumCalls(dl_trace) = 2
    /\ dl_trace[Len(dl_trace)] = SleepEv(delay_seconds)

\* ---------------------------------------------- claims on the progress file
IsPrefix(s, t) == Len(s) <= Len(t) /\ SubSeq(t, 1, Len(s)) = s
NoDuplicates(s) == \A a, b \in 1..Len(s) : s[a] = s[b] => a = b

\* one step of the run, seen from the progress file
ProgressStep ==
    /\ IsPrefix(progress_file, progress_file')
    /\ \A k \in (Len(progress_file) + 1)..Len(progress_file') :
          progress_file'[k] \notin Range(progress_file)
    /\ NoDuplicates(progress_file) => NoDuplicates(progress_file')
    /\ load_processed_tickers(progress_file) \subseteq
          load_processed_tickers(progress_file')
    /\ processed_tickers \subseteq processed_tickers'

\* C22: over any sequence of runs, interrupted or not, every step leaves the
\* progress file as it was or appends lines after its content: no line is
\* removed or rewritten, no symbol already in the file is appended, a file
\* without duplicates stays without, and the set that load_processed_tickers
\* reads at the start of a run contains the set read by the run before.
C22_AppendOnly == [][ProgressStep]_vars

\* a second run, after a first one that recorded C and ended before D: the
\* file of the first run is kept and D is appended after it
C22_Witness ==
    /\ runs = 2 /\ "C" \in Range(file0) /\ "D" \notin Range(file0)
    /\ IsPrefix(file0, progress_file) /\ Len(progress_file) > Len(file0)
    /\ NoDuplicates(progress_file)

\* ------------------------------------------------ claims on the primary key
\* the row of the ticker
RowOf(tbl, sym) ==
    tbl.rows[CHOOSE r \in 1..Len(tbl.rows) : tbl.rows[r]["Ticker"].of = sym]

\* C23: company_info never holds two rows with the same Ticker; a
\* company_info ingestion for a ticker that has a row is rejected by the
\* primary key: no row is added, and the row of the ticker keeps the values
\* it had (columns that the ingestion added to the table are not in it).
C23_OneRowPerTicker ==
    /\ \A a, b \in 1..Len(company_info.rows) :
          company_info.rows[a]["Ticker"].of = company_info.rows[b]["Ticker"].of
             => a = b
    /\ \A x \in 1..Len(info_log) :
          LET e == info_log[x] IN
          (e.done /\ HasRow(e.before, e.ticker)) =>
              /\ ~e.ok /\ e.why = "primary key"
              /\ HasRow(company_info, e.ticker)
              /\ RowOf(company_info, e.ticker) = RowOf(e.before, e.ticker)
              /\ x = Len(info_log) => Len(company_info.rows) = Len(e.before.rows)

\* a second ingestion for the same ticker with other columns: a column was
\* added, the row was rejected, the table has the one row of the first
C23_Witness ==
    /\ Len(info_log) = 2 /\ info_log[2].done
    /\ info_log[1].ticker = info_log[2].ticker
    /\ info_log[1].ok /\ ~info_log[2].ok
    /\ info_log[1].df # info_log[2].df
    /\ \E k \in 1..Len(info_log[2].attempts) : info_log[2].attempts[k].ok
    /\ Len(company_info.rows) = 1

\* ------------------------------------------------ claims on the crypto table
\* line 84 was executed by this call
CryptoStored ==
    \/ c_pc \in {"verify", "close"}
    \/ c_pc \in {"done", "interrupted"} /\ c_at \in {"verify", "close"}

\* C24: a call of fetch_and_store_crypto_data that ends before line 84 has
\* succeeded (nothing downloaded, an error in the download, the transform,
\* the connection or the statement, an interrupt) leaves crypto_ohlcv as it
\* was when the call began; once line 84 has succeeded the table exists and
\* holds the rows of this call's long_df and no other, whatever it held
\* before: a second call with the same data leaves the table of the first.
C24_ReplaceSemantics ==
    c_pc # "off" =>
      /\ ~CryptoStored => crypto_ohlcv = table0
      /\ CryptoStored => crypto_ohlcv = CryptoTable(crypto_df)
      /\ (CryptoStored /\ table0 = CryptoTable(crypto_df)) => crypto_ohlcv = table0

\* the second of two calls that downloaded the same two rows has stored
\* them and returned: the table is the one the first call left
C24_Witness ==
    /\ c_calls = 2 /\ c_pc = "done" /\ c_at = "close"
    /\ Len(crypto_df) = 2 /\ table0 = CryptoTable(crypto_df)
    /\ crypto_ohlcv = table0

====
